---- MODULE Spec2Model ----
(***************************************************************************)
(* Model of the Global Delete-Count Table (GDCT) of the delta subsystem    *)
(* (delta/global_delete_count_table.cc) and of the HotspotManager hooks    *)
(* (delta/hotspot_manager.{h,cc}) through which the LSM engine drives it.  *)
(*                                                                         *)
(* Spec        every public GDCT operation called with arbitrary           *)
(*             arguments; each call is one step (the whole call runs under *)
(*             mutex_).                                                    *)
(* SpecEngine  the host engine (puts, deletes, snapshots, flushes,         *)
(*             compactions) calling the HotspotManager hooks.              *)
(* SpecManager the HotspotManager calls InterceptDelete, RegisterFileRefs  *)
(*             and ApplyCompactionResult on keys and CUIDs that include 0. *)
(* SpecConcurrent  AtomicCompactionUpdate taken step by step under mutex_  *)
(*             next to reader threads running the const queries.           *)
(* SpecChaos   the multi-version scenario of delta_snapshot_test.cc.       *)
(* SpecKeys    ExtractCUID applied to keys of many lengths and CUIDs.      *)
(* SpecRace    threads running RegisterFileRefs (one lock per CUID) and    *)
(*             MarkDeleted at the same time.                               *)
(* SpecReclaim the engine after a delete, with snapshots released and the  *)
(*             files holding the deleted CUID compacted (fair).            *)
(***************************************************************************)
EXTENDS Integers, FiniteSets, Sequences, TLC

\* ------------------------------------------------------------- bounds
MaxCuid == 2
MaxPhys == 2
MaxSeq == 2
\* last sequence number the engine of SpecEngine hands out
LastSeq == 3
\* file numbers the engine of SpecEngine hands out
MaxFile == 3
\* snapshots the engine of SpecEngine keeps live at a time
MaxSnapshots == 1
\* reader threads of SpecConcurrent
MaxReaders == 1
\* threads of SpecRace that run RegisterFileRefs or MarkDeleted at the same time
MaxThreads == 2
\* largest CUID the HotspotManager calls of SpecManager are given (0 included)
MaxMgrCuid == 1
\* largest key suffix of SpecManager
MaxSuffix == 1
\* writes to other CUIDs that interleave with the scenario of SpecChaos
MaxOthers == 1
\* largest file number a flush before the scenario's own flush may take
MaxEarlyFile == 2

CUIDs == 1..MaxCuid
PhysIds == 1..MaxPhys
\* real sequence numbers supplied by callers of the table
Seqs == 0..MaxSeq

\* The sentinel of db/dbformat.h: larger than every real sequence number.
kMaxSequenceNumber == MaxSeq + LastSeq + 1

\* sequence arguments of the read path: a real sequence or the sentinel
VisSeqs == Seqs \cup {kMaxSequenceNumber}

VARIABLES
  table,      \* table_ : cuid -> entry, a function whose domain is the tracked CUIDs
  crashed,    \* the process died inside a call (undefined behaviour took that outcome)
  pre,        \* table_ as it was when the last call started
  last,       \* the last call: its name, arguments and return value
  lazyDel,    \* history: CUIDs whose entry MarkDeleted created and that had no file registered since
  maxDel,     \* history: cuid -> largest seq given to MarkDeleted in the entry's lifetime (-1: none)
  seq,        \* engine: last sequence number handed out
  memtable,   \* engine: unflushed data, a set of <<cuid, seq>>
  files,      \* engine: live SSTs, phys_id -> set of <<cuid, seq>>
  nextFile,   \* engine: next file number
  snapshots,  \* engine: live snapshot sequence numbers
  lastDel,    \* engine history: cuid -> sequence of the latest delete issued (0: none)
  mutex,      \* threads: state of mutex_ (exclusive holder or not, shared holders)
  writer,     \* threads: the thread inside AtomicCompactionUpdate and its position
  readers,    \* threads: reader thread -> its query, position and observed result
  script,     \* scenario: position in the scripted scenario and what it recorded
  race        \* racing threads: their calls, what is left of each, and the step order

gdctVars == <<table, crashed, pre, last, lazyDel, maxDel>>
engVars == <<seq, memtable, files, nextFile, snapshots, lastDel>>
auxVars == <<mutex, writer, readers, script, race>>
vars == <<table, crashed, pre, last, lazyDel, maxDel,
          seq, memtable, files, nextFile, snapshots, lastDel,
          mutex, writer, readers, script, race>>

\* ------------------------------------------------------------- entries
\* A default-constructed entry (table_[cuid] on a missing key).
NewEntry ==
  [tracked_phys_ids |-> {}, is_deleted |-> FALSE, deleted_seq |-> kMaxSequenceNumber]

EmptyTable == [c \in {} |-> NewEntry]

\* table_[cuid]: look up or insert a default entry
Upsert(t, cuid) ==
  [c \in DOMAIN t \cup {cuid} |-> IF c \in DOMAIN t THEN t[c] ELSE NewEntry]

\* table_.erase(it)
Erase(t, cuid) == [c \in DOMAIN t \ {cuid} |-> t[c]]

\* ------------------------------------------------------------- operations
TrackPhysicalUnitTableReset(t, cuid, phys_id) ==
  LET u == Upsert(t, cuid)
  IN  [u EXCEPT ![cuid] = [NewEntry EXCEPT !.tracked_phys_ids =
                             u[cuid].tracked_phys_ids \cup {phys_id}]]

\* TrackPhysicalUnit: the table after the call
TrackPhysicalUnitTable(t, cuid, phys_id) ==
  LET u == Upsert(t, cuid)
  IN  [u EXCEPT ![cuid].tracked_phys_ids = @ \cup {phys_id}]

TrackPhysicalUnitRetAlways(t, cuid, phys_id) == TRUE

\* TrackPhysicalUnit: its return value (true: newly inserted)
TrackPhysicalUnitRet(t, cuid, phys_id) ==
  \/ cuid \notin DOMAIN t
  \/ phys_id \notin t[cuid].tracked_phys_ids

\* UntrackPhysicalUnit: erases the id; the GC check is commented out in the source
UntrackPhysicalUnitTable(t, cuid, phys_id) ==
  IF cuid \in DOMAIN t
  THEN [t EXCEPT ![cuid].tracked_phys_ids = @ \ {phys_id}]
  ELSE t

UntrackFilesTableAnyEmpty(t, cuid, file_ids) ==
  IF cuid \in DOMAIN t
  THEN LET u == [t EXCEPT ![cuid].tracked_phys_ids = @ \ file_ids]
       IN  IF u[cuid].tracked_phys_ids = {} THEN Erase(u, cuid) ELSE u
  ELSE t

\* UntrackFiles: erases every listed id, then the GC check
UntrackFilesTable(t, cuid, file_ids) ==
  IF cuid \in DOMAIN t
  THEN LET u == [t EXCEPT ![cuid].tracked_phys_ids = @ \ file_ids]
       IN  IF u[cuid].tracked_phys_ids = {} /\ u[cuid].is_deleted
           THEN Erase(u, cuid)
           ELSE u
  ELSE t

MarkDeletedTableNoMax(t, cuid, s) ==
  LET u == Upsert(t, cuid)
  IN  [u EXCEPT ![cuid].is_deleted = TRUE, ![cuid].deleted_seq = s]

MarkDeletedTableFresh(t, cuid, s) ==
  LET u == Upsert(t, cuid)
      e == u[cuid]
  IN  [u EXCEPT ![cuid] =
         [tracked_phys_ids |-> {}, is_deleted |-> TRUE,
          deleted_seq |-> IF e.deleted_seq = kMaxSequenceNumber \/ s > e.deleted_seq
                          THEN s ELSE e.deleted_seq]]

\* MarkDeleted(cuid, seq): the table after the call
MarkDeletedTable(t, cuid, s) ==
  LET u == Upsert(t, cuid)
      e == u[cuid]
  IN  [u EXCEPT ![cuid].is_deleted = TRUE,
                ![cuid].deleted_seq =
                   IF e.deleted_seq = kMaxSequenceNumber \/ s > e.deleted_seq
                   THEN s ELSE e.deleted_seq]

\* MarkDeleted(cuid, seq): its return value
MarkDeletedRet(t, cuid, s) == TRUE

IsDeletedSnapshotBefore(t, cuid, visible_seq, found_seq) ==
  /\ cuid \in DOMAIN t
  /\ t[cuid].is_deleted
  /\ t[cuid].deleted_seq # kMaxSequenceNumber
  /\ visible_seq <= t[cuid].deleted_seq
  /\ found_seq < t[cuid].deleted_seq

IsDeletedNotStrict(t, cuid, visible_seq, found_seq) ==
  /\ cuid \in DOMAIN t
  /\ t[cuid].is_deleted
  /\ t[cuid].deleted_seq # kMaxSequenceNumber
  /\ visible_seq >= t[cuid].deleted_seq
  /\ found_seq <= t[cuid].deleted_seq

IsDeletedNoSnapshot(t, cuid, visible_seq, found_seq) ==
  /\ cuid \in DOMAIN t
  /\ t[cuid].is_deleted
  /\ t[cuid].deleted_seq # kMaxSequenceNumber
  /\ found_seq < t[cuid].deleted_seq

\* IsDeleted(cuid, visible_seq, found_seq)
IsDeleted(t, cuid, visible_seq, found_seq) ==
  IF cuid \notin DOMAIN t \/ ~t[cuid].is_deleted
  THEN FALSE
  ELSE LET del_seq == t[cuid].deleted_seq
       IN  IF del_seq = kMaxSequenceNumber
           THEN FALSE
           ELSE LET snapshot_sees_delete == (visible_seq >= del_seq)
                    data_is_older_than_delete == (found_seq < del_seq)
                IN  snapshot_sees_delete /\ data_is_older_than_delete

FindCreates(t, cuid) == Upsert(t, cuid)

\* table_.find(cuid) of the const queries: the table after the lookup. find
\* never inserts (operator[] would).
Find(t, cuid) == t

\* GetRefCount(cuid)
GetRefCount(t, cuid) ==
  IF cuid \in DOMAIN t THEN Cardinality(t[cuid].tracked_phys_ids) ELSE 0

GetDeleteSequenceZero(t, cuid) ==
  IF cuid \in DOMAIN t THEN t[cuid].deleted_seq ELSE 0

\* GetDeleteSequence(cuid)
GetDeleteSequence(t, cuid) ==
  IF cuid \in DOMAIN t /\ t[cuid].is_deleted
  THEN t[cuid].deleted_seq
  ELSE kMaxSequenceNumber

\* IsTracked(cuid)
IsTracked(t, cuid) == cuid \in DOMAIN t

\* AtomicCompactionUpdate step 1: every output id is inserted into the entry of
\* every CUID of its set (entries created on demand). Insertions into sets
\* commute, so the loop is given by its result.
CreditOutputs(t, output_file_to_cuids) ==
  LET credited == UNION {output_file_to_cuids[o] : o \in DOMAIN output_file_to_cuids}
      u == [c \in DOMAIN t \cup credited |-> IF c \in DOMAIN t THEN t[c] ELSE NewEntry]
  IN  [c \in DOMAIN u |->
         [u[c] EXCEPT !.tracked_phys_ids =
            @ \cup {o \in DOMAIN output_file_to_cuids : c \in output_file_to_cuids[o]}]]

DebitInputsAll(t, involved_cuids, input_files) ==
  LET u == [c \in DOMAIN t |-> [t[c] EXCEPT !.tracked_phys_ids = @ \ input_files]]
      gone == {c \in DOMAIN t \cap involved_cuids :
                 u[c].tracked_phys_ids = {} /\ u[c].is_deleted}
  IN  [c \in DOMAIN t \ gone |-> u[c]]

DebitInputsNoGC(t, involved_cuids, input_files) ==
  [c \in DOMAIN t |->
     IF c \in involved_cuids
     THEN [t[c] EXCEPT !.tracked_phys_ids = @ \ input_files]
     ELSE t[c]]

\* AtomicCompactionUpdate steps 2 and 3: for every involved CUID that has an
\* entry, erase all input ids, then erase the entry if it is empty and deleted.
\* Each CUID's iteration touches only its own entry.
DebitInputs(t, involved_cuids, input_files) ==
  LET u == [c \in DOMAIN t |->
              IF c \in involved_cuids
              THEN [t[c] EXCEPT !.tracked_phys_ids = @ \ input_files]
              ELSE t[c]]
      gone == {c \in DOMAIN t \cap involved_cuids :
                 u[c].tracked_phys_ids = {} /\ u[c].is_deleted}
  IN  [c \in DOMAIN t \ gone |-> u[c]]

\* AtomicCompactionUpdate: the table after a call that returns
AtomicCompactionUpdateTable(t, involved_cuids, input_files, output_file_to_cuids) ==
  DebitInputs(CreditOutputs(t, output_file_to_cuids), involved_cuids, input_files)

\* The trace line of step 1 dereferences pair.second.begin(): undefined
\* behaviour when an output's CUID set is empty.
DerefsEmptySet(output_file_to_cuids) ==
  \E o \in DOMAIN output_file_to_cuids : output_file_to_cuids[o] = {}

\* ------------------------------------------------------------- calls (Spec)
NoCall ==
  [op |-> "none", cuid |-> 0, phys_id |-> 0, seq |-> 0, found_seq |-> 0,
   ids |-> {}, involved |-> {}, outputs |-> EmptyTable, key |-> <<>>,
   ret |-> FALSE]

\* every map from at most all PhysIds to sets of CUIDs
OutputMaps == UNION {[D -> SUBSET CUIDs] : D \in SUBSET PhysIds}

Max(a, b) == IF a >= b THEN a ELSE b

\* the history variables after a call that leaves table_ as t2:
\* created: CUIDs whose entry this call's MarkDeleted created;
\* registered: CUIDs that got a file registered; marked: <<cuid, seq>> pairs
History(t2, created, registered, marked) ==
  /\ lazyDel' = ((lazyDel \cup created) \ registered) \cap DOMAIN t2
  /\ maxDel' = [c \in CUIDs |->
                  IF c \notin DOMAIN t2 THEN -1
                  ELSE LET m == IF c \in DOMAIN table THEN maxDel[c] ELSE -1
                       IN  IF \E p \in marked : p[1] = c
                           THEN Max(m, (CHOOSE p \in marked : p[1] = c)[2])
                           ELSE m]

\* the threads of the concurrent specification when they are outside any call
Readers == 1..MaxReaders

MutexFree == [exclusive |-> FALSE, shared |-> {}]

WriterIdle ==
  [pc |-> "idle", involved |-> {}, ids |-> {}, outputs |-> EmptyTable,
   todo |-> {}, cur |-> 0, start |-> EmptyTable]

ReaderIdle ==
  [pc |-> "idle", op |-> "none", cuid |-> 0, visible_seq |-> 0, found_seq |-> 0,
   seen |-> 0]

\* no threads are racing
NoRace == [on |-> FALSE, start |-> EmptyTable, calls |-> <<>>, log |-> <<>>]

\* the scripted scenario before its first step
ScriptStart == [pc |-> 0, snaps |-> <<>>, vals |-> <<>>, others |-> 0]

\* a call is made by a caller that is not inside another call
Idle == ~crashed /\ last.op = "none"

Returns(t2, call) ==
  /\ table' = t2
  /\ pre' = table
  /\ last' = call
  /\ UNCHANGED <<crashed, engVars, auxVars>>

TrackPhysicalUnit ==
  /\ Idle
  /\ \E cuid \in CUIDs, phys_id \in PhysIds :
    LET t2 == TrackPhysicalUnitTable(table, cuid, phys_id)
    IN  /\ Returns(t2, [NoCall EXCEPT !.op = "TrackPhysicalUnit", !.cuid = cuid,
                          !.phys_id = phys_id,
                          !.ret = TrackPhysicalUnitRet(table, cuid, phys_id)])
        /\ History(t2, {}, {cuid}, {})

UntrackPhysicalUnit ==
  /\ Idle
  /\ \E cuid \in CUIDs, phys_id \in PhysIds :
    LET t2 == UntrackPhysicalUnitTable(table, cuid, phys_id)
    IN  /\ Returns(t2, [NoCall EXCEPT !.op = "UntrackPhysicalUnit", !.cuid = cuid,
                          !.phys_id = phys_id])
        /\ History(t2, {}, {}, {})

UntrackFiles ==
  /\ Idle
  /\ \E cuid \in CUIDs, file_ids \in SUBSET PhysIds :
    LET t2 == UntrackFilesTable(table, cuid, file_ids)
    IN  /\ Returns(t2, [NoCall EXCEPT !.op = "UntrackFiles", !.cuid = cuid,
                          !.ids = file_ids])
        /\ History(t2, {}, {}, {})

MarkDeleted ==
  /\ Idle
  /\ \E cuid \in CUIDs, s \in Seqs :
    LET t2 == MarkDeletedTable(table, cuid, s)
    IN  /\ Returns(t2, [NoCall EXCEPT !.op = "MarkDeleted", !.cuid = cuid,
                          !.seq = s, !.ret = MarkDeletedRet(table, cuid, s)])
        /\ History(t2, {cuid} \ DOMAIN table, {}, {<<cuid, s>>})

IsDeletedCall ==
  /\ Idle
  /\ \E cuid \in CUIDs, visible_seq \in VisSeqs, found_seq \in Seqs :
    LET t2 == Find(table, cuid)
    IN  /\ Returns(t2, [NoCall EXCEPT !.op = "IsDeleted", !.cuid = cuid,
                          !.seq = visible_seq, !.found_seq = found_seq,
                          !.ret = IsDeleted(table, cuid, visible_seq, found_seq)])
        /\ History(t2, {}, {}, {})

GetRefCountCall ==
  /\ Idle
  /\ \E cuid \in CUIDs :
    LET t2 == Find(table, cuid)
    IN  /\ Returns(t2, [NoCall EXCEPT !.op = "GetRefCount", !.cuid = cuid,
                          !.ret = GetRefCount(table, cuid)])
        /\ History(t2, {}, {}, {})

GetDeleteSequenceCall ==
  /\ Idle
  /\ \E cuid \in CUIDs :
    LET t2 == Find(table, cuid)
    IN  /\ Returns(t2, [NoCall EXCEPT !.op = "GetDeleteSequence", !.cuid = cuid,
                          !.ret = GetDeleteSequence(table, cuid)])
        /\ History(t2, {}, {}, {})

IsTrackedCall ==
  /\ Idle
  /\ \E cuid \in CUIDs :
    LET t2 == Find(table, cuid)
    IN  /\ Returns(t2, [NoCall EXCEPT !.op = "IsTracked", !.cuid = cuid,
                          !.ret = IsTracked(table, cuid)])
        /\ History(t2, {}, {}, {})

AtomicCompactionUpdate ==
  /\ Idle
  /\ \E involved_cuids \in SUBSET CUIDs, input_files \in SUBSET PhysIds,
        output_file_to_cuids \in OutputMaps :
    LET call == [NoCall EXCEPT !.op = "AtomicCompactionUpdate",
                   !.involved = involved_cuids, !.ids = input_files,
                   !.outputs = output_file_to_cuids]
        t2 == AtomicCompactionUpdateTable(table, involved_cuids, input_files,
                                          output_file_to_cuids)
    IN  \/ /\ Returns(t2, call)
           /\ History(t2, {}, UNION {output_file_to_cuids[o] :
                                       o \in DOMAIN output_file_to_cuids}, {})
        \/ /\ DerefsEmptySet(output_file_to_cuids)
           /\ crashed' = TRUE
           /\ pre' = table
           /\ last' = call
           /\ UNCHANGED <<table, lazyDel, maxDel, engVars, auxVars>>

\* the caller has used the result of its call; the record of the call is dropped
Resume ==
  /\ ~crashed
  /\ last.op # "none"
  /\ last' = NoCall
  /\ pre' = EmptyTable
  /\ UNCHANGED <<table, crashed, lazyDel, maxDel, engVars, auxVars>>

Init ==
  /\ table = EmptyTable
  /\ crashed = FALSE
  /\ pre = EmptyTable
  /\ last = NoCall
  /\ lazyDel = {}
  /\ maxDel = [c \in CUIDs |-> -1]
  /\ seq = 0
  /\ memtable = {}
  /\ files = EmptyTable
  /\ nextFile = 1
  /\ snapshots = {}
  /\ lastDel = [c \in CUIDs |-> 0]
  /\ mutex = MutexFree
  /\ writer = WriterIdle
  /\ readers = [r \in Readers |-> ReaderIdle]
  /\ script = ScriptStart
  /\ race = NoRace

Next ==
  \/ TrackPhysicalUnit
  \/ UntrackPhysicalUnit
  \/ UntrackFiles
  \/ MarkDeleted
  \/ IsDeletedCall
  \/ GetRefCountCall
  \/ GetDeleteSequenceCall
  \/ IsTrackedCall
  \/ AtomicCompactionUpdate
  \/ Resume

Spec == Init /\ [][Next]_vars

\* ------------------------------------------------------------- HotspotManager
\* RegisterFileRefs: TrackPhysicalUnit(cuid, file_number) for each cuid in turn
RECURSIVE RegisterFileRefs(_, _, _)
RegisterFileRefs(t, file_number, cuids) ==
  IF cuids = {}
  THEN t
  ELSE LET cuid == CHOOSE c \in cuids : TRUE
       IN  RegisterFileRefs(TrackPhysicalUnitTable(t, cuid, file_number),
                            file_number, cuids \ {cuid})

\* ApplyCompactionResult(involved_cuids, input_files, output_file_to_cuids):
\* passes its arguments to AtomicCompactionUpdate
ApplyCompactionResult(t, involved_cuids, input_files, output_file_to_cuids) ==
  AtomicCompactionUpdateTable(t, involved_cuids, input_files, output_file_to_cuids)

\* InterceptDelete(key, seq) on a key whose CUID is cuid: the table afterwards
InterceptDeleteTable(t, cuid, s) ==
  IF cuid = 0 THEN t ELSE MarkDeletedTable(t, cuid, s)

\* IsCuidDeleted(cuid, visible_seq, found_seq)
IsCuidDeleted(t, cuid, visible_seq, found_seq) ==
  IsDeleted(t, cuid, visible_seq, found_seq)

\* ------------------------------------------------------------- keys
\* the 16 bytes before the CUID in the keys the tests build:
\* "pad_0000000000" and two NUL bytes
KeyPrefix == <<112, 97, 100, 95, 48, 48, 48, 48, 48, 48, 48, 48, 48, 48, 0, 0>>

\* x >> (8 * n)
RECURSIVE ShiftRightBytes(_, _)
ShiftRightBytes(x, n) == IF n = 0 THEN x ELSE ShiftRightBytes(x \div 256, n - 1)

\* the 8 bytes of cuid, most significant first
BigEndian(cuid) == [i \in 1..8 |-> ShiftRightBytes(cuid, 8 - i) % 256]

\* std::to_string of a non-negative number, as bytes
RECURSIVE to_string(_)
to_string(n) ==
  IF n < 10 THEN <<48 + n>> ELSE to_string(n \div 10) \o <<48 + (n % 10)>>

\* Key(cuid, suffix) of the tests
Key(cuid, suffix) == KeyPrefix \o BigEndian(cuid) \o to_string(suffix)

\* the value of the first n bytes of p read as a big-endian number
RECURSIVE DecodeBigEndian(_, _)
DecodeBigEndian(p, n) ==
  IF n = 0 THEN 0 ELSE DecodeBigEndian(p, n - 1) * 256 + p[n]

ExtractCUIDShort(key) ==
  IF Len(key) < 25 THEN 0 ELSE DecodeBigEndian(SubSeq(key, 17, 24), 8)

\* ExtractCUID(key): 0 for a key shorter than 24 bytes, else bytes 16..23
\* (counted from 0) as a big-endian number
ExtractCUID(key) ==
  IF Len(key) < 24 THEN 0 ELSE DecodeBigEndian(SubSeq(key, 17, 24), 8)

\* ------------------------------------------------------------- ExtractCUID on many keys (SpecKeys)
\* CUIDs with one, two, three and four significant bytes
KeyCuids ==
  {0, 1, 2, 128, 255, 256, 257, 32768, 65535, 65536, 16777215, 16777216,
   2147483647}

\* a 16-byte prefix other than the tests'
OtherPrefix == [i \in 1..16 |-> 255]

\* bytes that may follow the CUID
Tails == {<<>>, <<0>>, <<255, 1>>}

\* every key of the tests' helper cut to every length, and keys with another
\* prefix and other trailing bytes
KeyInputs ==
  UNION {{SubSeq(Key(c, x), 1, n) : n \in 0..Len(Key(c, x))} :
           c \in KeyCuids, x \in 0..MaxSuffix}
    \cup {OtherPrefix \o BigEndian(c) \o tail : c \in KeyCuids, tail \in Tails}

ExtractCUIDCall ==
  /\ Idle
  /\ \E key \in KeyInputs :
       Returns(table, [NoCall EXCEPT !.op = "ExtractCUID", !.key = key,
                                     !.cuid = ExtractCUID(key)])
  /\ UNCHANGED <<lazyDel, maxDel>>

NextKeys ==
  \/ ExtractCUIDCall
  \/ Resume

SpecKeys == Init /\ [][NextKeys]_vars

\* ------------------------------------------------------------- HotspotManager calls (SpecManager)
MgrCuids == 0..MaxMgrCuid

\* well-formed keys of every CUID, the same keys cut to 23 bytes, the empty key
MgrKeys ==
  {Key(c, x) : c \in MgrCuids, x \in 0..MaxSuffix}
    \cup {SubSeq(Key(c, 0), 1, 23) : c \in MgrCuids}
    \cup {<<>>}

MgrOutputMaps == UNION {[D -> SUBSET MgrCuids] : D \in SUBSET PhysIds}

\* InterceptDelete(key, seq): its return value
InterceptDeleteRet(t, cuid, s) ==
  IF cuid = 0 THEN FALSE ELSE MarkDeletedRet(t, cuid, s)

InterceptDelete ==
  /\ Idle
  /\ \E key \in MgrKeys, s \in Seqs :
       LET cuid == ExtractCUID(key)
       IN  Returns(InterceptDeleteTable(table, cuid, s),
                   [NoCall EXCEPT !.op = "InterceptDelete", !.key = key,
                                  !.cuid = cuid, !.seq = s,
                                  !.ret = InterceptDeleteRet(table, cuid, s)])
  /\ UNCHANGED <<lazyDel, maxDel>>

RegisterFileRefsCall ==
  /\ Idle
  /\ \E file_number \in PhysIds, cuids \in SUBSET MgrCuids :
       Returns(RegisterFileRefs(table, file_number, cuids),
               [NoCall EXCEPT !.op = "RegisterFileRefs", !.phys_id = file_number,
                              !.involved = cuids])
  /\ UNCHANGED <<lazyDel, maxDel>>

ApplyCompactionResultCall ==
  /\ Idle
  /\ \E involved \in SUBSET MgrCuids, inputs \in SUBSET PhysIds,
        outputs \in MgrOutputMaps :
       LET call == [NoCall EXCEPT !.op = "ApplyCompactionResult",
                                  !.involved = involved, !.ids = inputs,
                                  !.outputs = outputs]
       IN  \/ Returns(ApplyCompactionResult(table, involved, inputs, outputs), call)
           \/ /\ DerefsEmptySet(outputs)
              /\ crashed' = TRUE
              /\ pre' = table
              /\ last' = call
              /\ UNCHANGED <<table, engVars, auxVars>>
  /\ UNCHANGED <<lazyDel, maxDel>>

NextManager ==
  \/ InterceptDelete
  \/ RegisterFileRefsCall
  \/ ApplyCompactionResultCall
  \/ Resume

SpecManager == Init /\ [][NextManager]_vars

\* ------------------------------------------------------------- threads (SpecConcurrent)
CanLockSharedAlways(m) == TRUE

\* std::shared_lock<std::shared_mutex> lock(mutex_) can be taken
CanLockShared(m) == ~m.exclusive

\* std::unique_lock<std::shared_mutex> lock(mutex_) can be taken
CanLockExclusive(m) == ~m.exclusive /\ m.shared = {}

\* what a const query returns on table t
Query(t, q) ==
  CASE q.op = "GetRefCount" -> GetRefCount(t, q.cuid)
    [] q.op = "IsTracked" -> IsTracked(t, q.cuid)
    [] q.op = "GetDeleteSequence" -> GetDeleteSequence(t, q.cuid)
    [] q.op = "IsDeleted" -> IsDeleted(t, q.cuid, q.visible_seq, q.found_seq)

ThreadStep ==
  /\ ~crashed
  /\ UNCHANGED <<crashed, pre, last, lazyDel, maxDel, engVars, script, race>>

\* TrackPhysicalUnit by some thread: one step under the exclusive lock
LockedTrackPhysicalUnit ==
  /\ writer.pc = "idle"
  /\ CanLockExclusive(mutex)
  /\ \E cuid \in CUIDs, phys_id \in PhysIds :
       table' = TrackPhysicalUnitTable(table, cuid, phys_id)
  /\ ThreadStep
  /\ UNCHANGED <<mutex, writer, readers>>

\* MarkDeleted by some thread: one step under the exclusive lock
LockedMarkDeleted ==
  /\ writer.pc = "idle"
  /\ CanLockExclusive(mutex)
  /\ \E cuid \in CUIDs, s \in Seqs : table' = MarkDeletedTable(table, cuid, s)
  /\ ThreadStep
  /\ UNCHANGED <<mutex, writer, readers>>

\* AtomicCompactionUpdate, line 162: the exclusive lock is taken
WriterLock ==
  /\ writer.pc = "idle"
  /\ CanLockExclusive(mutex)
  /\ \E involved \in SUBSET CUIDs, inputs \in SUBSET PhysIds, outputs \in OutputMaps :
       writer' = [pc |-> "credit", involved |-> involved, ids |-> inputs,
                  outputs |-> outputs, todo |-> involved, cur |-> 0,
                  start |-> table]
  /\ mutex' = [mutex EXCEPT !.exclusive = TRUE]
  /\ ThreadStep
  /\ UNCHANGED <<table, readers>>

\* step 1: the outputs are credited (or the trace line dereferences an empty set)
WriterCredit ==
  /\ writer.pc = "credit"
  /\ ~crashed
  /\ \/ /\ table' = CreditOutputs(table, writer.outputs)
        /\ writer' = [writer EXCEPT !.pc = "debit"]
        /\ UNCHANGED crashed
     \/ /\ DerefsEmptySet(writer.outputs)
        /\ crashed' = TRUE
        /\ UNCHANGED <<table, writer>>
  /\ UNCHANGED <<pre, last, lazyDel, maxDel, engVars, script, race, mutex, readers>>

\* step 2, one involved CUID: skipped when it has no entry, else the input
\* files are erased from its phys_ids
WriterDebit ==
  /\ writer.pc = "debit"
  /\ \E cuid \in writer.todo :
       IF cuid \notin DOMAIN table
       THEN /\ writer' = [writer EXCEPT !.todo = @ \ {cuid}]
            /\ UNCHANGED table
       ELSE /\ table' = [table EXCEPT ![cuid].tracked_phys_ids = @ \ writer.ids]
            /\ writer' = [writer EXCEPT !.pc = "gc", !.cur = cuid]
  /\ ThreadStep
  /\ UNCHANGED <<mutex, readers>>

\* step 3 for that CUID: the entry is erased when it is empty and deleted
WriterGC ==
  /\ writer.pc = "gc"
  /\ table' = IF table[writer.cur].tracked_phys_ids = {} /\ table[writer.cur].is_deleted
              THEN Erase(table, writer.cur)
              ELSE table
  /\ writer' = [writer EXCEPT !.pc = "debit", !.todo = @ \ {writer.cur}, !.cur = 0]
  /\ ThreadStep
  /\ UNCHANGED <<mutex, readers>>

\* the call returns and the lock is released
WriterUnlock ==
  /\ writer.pc = "debit"
  /\ writer.todo = {}
  /\ writer' = WriterIdle
  /\ mutex' = [mutex EXCEPT !.exclusive = FALSE]
  /\ ThreadStep
  /\ UNCHANGED <<table, readers>>

\* a const query takes the shared lock
ReaderLock ==
  /\ \E r \in Readers :
       /\ readers[r].pc = "idle"
       /\ CanLockShared(mutex)
       /\ \E op \in {"GetRefCount", "IsTracked", "GetDeleteSequence", "IsDeleted"},
             cuid \in CUIDs, visible_seq \in VisSeqs, found_seq \in Seqs :
            /\ op # "IsDeleted" => visible_seq = 0 /\ found_seq = 0
            /\ readers' = [readers EXCEPT ![r] =
                             [pc |-> "locked", op |-> op, cuid |-> cuid,
                              visible_seq |-> visible_seq, found_seq |-> found_seq,
                              seen |-> 0]]
       /\ mutex' = [mutex EXCEPT !.shared = @ \cup {r}]
  /\ ThreadStep
  /\ UNCHANGED <<table, writer>>

\* the query looks the entry up and computes its result
ReaderRead ==
  /\ \E r \in Readers :
       /\ readers[r].pc = "locked"
       /\ readers' = [readers EXCEPT ![r].pc = "read",
                                     ![r].seen = Query(table, readers[r])]
  /\ ThreadStep
  /\ UNCHANGED <<table, mutex, writer>>

\* the query returns and the shared lock is released
ReaderUnlock ==
  /\ \E r \in Readers :
       /\ readers[r].pc = "read"
       /\ readers' = [readers EXCEPT ![r] = ReaderIdle]
       /\ mutex' = [mutex EXCEPT !.shared = @ \ {r}]
  /\ ThreadStep
  /\ UNCHANGED <<table, writer>>

NextConcurrent ==
  \/ LockedTrackPhysicalUnit
  \/ LockedMarkDeleted
  \/ WriterLock
  \/ WriterCredit
  \/ WriterDebit
  \/ WriterGC
  \/ WriterUnlock
  \/ ReaderLock
  \/ ReaderRead
  \/ ReaderUnlock

SpecConcurrent == Init /\ [][NextConcurrent]_vars

\* ------------------------------------------------------------- engine (SpecEngine)
\* A datum is <<cuid, seq>>: a version of a key of that CUID written at seq.
CuidsOf(data) == {d[1] : d \in data}

\* every datum that physically exists
Present == memtable \cup UNION {files[f] : f \in DOMAIN files}

\* the oldest live snapshot, or the sentinel when there is none
BottommostVisibleSeq ==
  IF snapshots = {} THEN kMaxSequenceNumber
  ELSE CHOOSE s \in snapshots : \A r \in snapshots : s <= r

\* the compaction iterator's drop predicate
ShouldDrop(d) == IsCuidDeleted(table, d[1], BottommostVisibleSeq, d[2])

EngineStep ==
  /\ ~crashed
  /\ UNCHANGED <<crashed, pre, last, lazyDel, maxDel, auxVars>>

\* a write of a key of cuid
Put ==
  /\ seq < LastSeq
  /\ \E cuid \in CUIDs :
       /\ seq' = seq + 1
       /\ memtable' = memtable \cup {<<cuid, seq + 1>>}
  /\ EngineStep
  /\ UNCHANGED <<table, files, nextFile, snapshots, lastDel>>

\* a delete of a key of cuid: intercepted with the sequence its tombstone would
\* have got; no tombstone is written, and the next write may get the same sequence
Delete ==
  /\ seq < LastSeq
  /\ \E cuid \in CUIDs, consumes \in BOOLEAN :
       /\ table' = InterceptDeleteTable(table, cuid, seq + 1)
       /\ lastDel' = [lastDel EXCEPT ![cuid] = seq + 1]
       /\ seq' = IF consumes THEN seq + 1 ELSE seq
  /\ EngineStep
  /\ UNCHANGED <<memtable, files, nextFile, snapshots>>

GetSnapshot ==
  /\ Cardinality(snapshots) < MaxSnapshots
  /\ seq \notin snapshots
  /\ snapshots' = snapshots \cup {seq}
  /\ EngineStep
  /\ UNCHANGED <<table, seq, memtable, files, nextFile, lastDel>>

ReleaseSnapshot ==
  /\ \E s \in snapshots : snapshots' = snapshots \ {s}
  /\ EngineStep
  /\ UNCHANGED <<table, seq, memtable, files, nextFile, lastDel>>

\* flush completion: the memtable becomes a new file, registered for its CUIDs
Flush ==
  /\ memtable # {}
  /\ nextFile <= MaxFile
  /\ files' = [f \in DOMAIN files \cup {nextFile} |->
                 IF f = nextFile THEN memtable ELSE files[f]]
  /\ table' = RegisterFileRefs(table, nextFile, CuidsOf(memtable))
  /\ memtable' = {}
  /\ nextFile' = nextFile + 1
  /\ EngineStep
  /\ UNCHANGED <<seq, snapshots, lastDel>>

\* the files a compaction writes: none, one, or two (a split)
CompactionOutputs(survivors) ==
  IF survivors = {} THEN {EmptyTable}
  ELSE {[f \in {nextFile} |-> survivors]}
       \cup {[f \in {nextFile, nextFile + 1} |->
                IF f = nextFile THEN part ELSE survivors \ part] :
               part \in (SUBSET survivors) \ {{}, survivors}}

\* a merging compaction of some live files: keys the drop predicate selects are
\* left out, the rest is written to new files, and the result is applied
Compact ==
  /\ \E inputs \in (SUBSET DOMAIN files) \ {{}} :
       LET data == UNION {files[f] : f \in inputs}
           survivors == {d \in data : ~ShouldDrop(d)}
       IN  \E outs \in CompactionOutputs(survivors) :
             /\ \A f \in DOMAIN outs : f <= MaxFile
             /\ files' = [f \in (DOMAIN files \ inputs) \cup DOMAIN outs |->
                            IF f \in DOMAIN outs THEN outs[f] ELSE files[f]]
             /\ nextFile' = nextFile + Cardinality(DOMAIN outs)
             /\ table' = ApplyCompactionResult(table, CuidsOf(data), inputs,
                            [f \in DOMAIN outs |-> CuidsOf(outs[f])])
  /\ EngineStep
  /\ UNCHANGED <<seq, memtable, snapshots, lastDel>>

\* a trivial move: one file changes level unchanged and keeps its number; the
\* compaction's input and its output are that same file
TrivialMove ==
  /\ \E f \in DOMAIN files :
       table' = ApplyCompactionResult(table, CuidsOf(files[f]), {f},
                                      [o \in {f} |-> CuidsOf(files[f])])
  /\ EngineStep
  /\ UNCHANGED <<seq, memtable, files, nextFile, snapshots, lastDel>>

NextEngine ==
  \/ Put
  \/ Delete
  \/ GetSnapshot
  \/ ReleaseSnapshot
  \/ Flush
  \/ Compact
  \/ TrivialMove

SpecEngine == Init /\ [][NextEngine]_vars

\* ------------------------------------------------------------- claims
\* the entry the last call's cuid had when the call started
PreHas(c) == c \in DOMAIN pre
Called(op) == last.op = op /\ ~crashed

C2_NoResurface ==
  \A d \in Present :
    d[2] < lastDel[d[1]] => IsCuidDeleted(table, d[1], kMaxSequenceNumber, d[2])

\* C3: for a live snapshot S and a delete of c issued at D > S, every key of c
\* with key_seq <= S is not deleted under S.
C3_SnapshotStability ==
  \A S \in snapshots : \A c \in CUIDs :
    lastDel[c] > S => \A key_seq \in 0..S : ~IsCuidDeleted(table, c, S, key_seq)

\* a snapshot older than the delete still sees a datum in a file that a read
\* without a snapshot no longer sees
C3_Witness ==
  \E S \in snapshots : \E f \in DOMAIN files : \E d \in files[f] :
    /\ lastDel[d[1]] > S
    /\ d[2] <= S
    /\ IsCuidDeleted(table, d[1], kMaxSequenceNumber, d[2])
    /\ ~IsCuidDeleted(table, d[1], S, d[2])

\* C4: a put of c at P >= D, D the latest delete of c, is seen by a read at any
\* snapshot >= P and by a read without a snapshot, and the compaction drop
\* predicate does not select it.
C4_ReinsertionSurvives ==
  \A d \in Present :
    (lastDel[d[1]] > 0 /\ d[2] >= lastDel[d[1]]) =>
      /\ \A S \in (d[2]..LastSeq) \cup {kMaxSequenceNumber} :
           ~IsCuidDeleted(table, d[1], S, d[2])
      /\ ~ShouldDrop(d)

\* a put at the very sequence of the delete, flushed to a file, the delete
\* still recorded in the table
C4_Witness ==
  \E f \in DOMAIN files : \E d \in files[f] :
    /\ d[2] = lastDel[d[1]]
    /\ GetDeleteSequence(table, d[1]) = d[2]

\* the number of live files holding a key of c
LiveFilesWith(c) == Cardinality({f \in DOMAIN files : c \in CuidsOf(files[f])})

\* C5: with every flush registered and every compaction applied with its true
\* arguments, GetRefCount(c) is the number of live files holding a key of c.
C5_RefcountMatchesDisk ==
  \A c \in CUIDs : GetRefCount(table, c) = LiveFilesWith(c)

\* C6: for c marked deleted, after an AtomicCompactionUpdate with c involved,
\* all of c's files among the inputs and c in no output set, c has no entry.
C6_FullGC ==
  \A c \in CUIDs :
    ( /\ Called("AtomicCompactionUpdate")
      /\ PreHas(c)
      /\ pre[c].is_deleted
      /\ c \in last.involved
      /\ pre[c].tracked_phys_ids \subseteq last.ids
      /\ \A o \in DOMAIN last.outputs : c \notin last.outputs[o] )
    => (~IsTracked(table, c) /\ GetRefCount(table, c) = 0)

\* a deleted CUID with a file, fully consumed by the update
C6_Witness ==
  \E c \in CUIDs :
    /\ Called("AtomicCompactionUpdate")
    /\ PreHas(c)
    /\ pre[c].is_deleted
    /\ pre[c].tracked_phys_ids # {}
    /\ c \in last.involved
    /\ pre[c].tracked_phys_ids \subseteq last.ids
    /\ \A o \in DOMAIN last.outputs : c \notin last.outputs[o]
    /\ ~IsTracked(table, c)

\* C7: after an AtomicCompactionUpdate with a PhysId F both in input_files and
\* an output whose set contains c (c involved), F is in c's phys_ids, the
\* entry exists, and a call that is only this move leaves GetRefCount(c) as it was.
C7_TrivialMoveReuse ==
  \A c \in CUIDs : \A F \in PhysIds :
    ( /\ Called("AtomicCompactionUpdate")
      /\ F \in last.ids
      /\ F \in DOMAIN last.outputs
      /\ c \in last.outputs[F]
      /\ c \in last.involved )
    => /\ IsTracked(table, c)
       /\ F \in table[c].tracked_phys_ids
       /\ (last.ids = {F} /\ DOMAIN last.outputs = {F} /\ PreHas(c)
           /\ F \in pre[c].tracked_phys_ids)
          => GetRefCount(table, c) = GetRefCount(pre, c)

\* C8: the table holds no entry with is_deleted set and phys_ids empty, except
\* between a MarkDeleted that created the entry and the first file
\* registration for the CUID.
C8_GCInvariant ==
  \A c \in DOMAIN table :
    (table[c].is_deleted /\ table[c].tracked_phys_ids = {}) => c \in lazyDel

\* C9: UntrackPhysicalUnit(cuid, phys_id) removes phys_id, and erases the entry
\* when that leaves phys_ids empty and is_deleted is set.
C9_UntrackErases ==
  (Called("UntrackPhysicalUnit") /\ PreHas(last.cuid)) =>
    /\ IsTracked(table, last.cuid) => last.phys_id \notin table[last.cuid].tracked_phys_ids
    /\ (pre[last.cuid].is_deleted /\ pre[last.cuid].tracked_phys_ids \ {last.phys_id} = {})
         => ~IsTracked(table, last.cuid)

\* C10: within an entry's lifetime MarkDeleted never lowers deleted_seq, and
\* deleted_seq and GetDeleteSequence(cuid) are the largest sequence supplied.
C10_DeleteMonotone ==
  /\ \A c \in DOMAIN table :
       table[c].is_deleted =>
         /\ table[c].deleted_seq = maxDel[c]
         /\ GetDeleteSequence(table, c) = maxDel[c]
  /\ (Called("MarkDeleted") /\ PreHas(last.cuid) /\ pre[last.cuid].is_deleted) =>
       table[last.cuid].deleted_seq >= pre[last.cuid].deleted_seq

\* a delete arriving with a sequence below the one already recorded
C10_Witness ==
  /\ Called("MarkDeleted")
  /\ PreHas(last.cuid)
  /\ pre[last.cuid].is_deleted
  /\ last.seq < pre[last.cuid].deleted_seq
  /\ table[last.cuid].deleted_seq = pre[last.cuid].deleted_seq

\* phys_ids of c in table t, empty when c has no entry
PhysIdsOf(t, c) == IF c \in DOMAIN t THEN t[c].tracked_phys_ids ELSE {}

\* C11: TrackPhysicalUnit(c, p) returns true exactly when p was not already in
\* c's phys_ids; a second identical call leaves phys_ids as the first left it
\* and returns false.
C11_IdempotentTrack ==
  Called("TrackPhysicalUnit") =>
    /\ last.ret <=> last.phys_id \notin PhysIdsOf(pre, last.cuid)
    /\ PhysIdsOf(table, last.cuid) = PhysIdsOf(pre, last.cuid) \cup {last.phys_id}
    /\ TrackPhysicalUnitTable(table, last.cuid, last.phys_id) = table
    /\ ~TrackPhysicalUnitRet(table, last.cuid, last.phys_id)

\* the second of two identical calls
C11_Witness ==
  /\ Called("TrackPhysicalUnit")
  /\ ~last.ret
  /\ table = pre

\* C12: from any table state, MarkDeleted(c, s) then TrackPhysicalUnit(c, p)
\* reaches the same entry state as TrackPhysicalUnit(c, p) then MarkDeleted(c, s).
C12_LazyCreationCommutes ==
  \A c \in CUIDs : \A s \in Seqs : \A p \in PhysIds :
    TrackPhysicalUnitTable(MarkDeletedTable(table, c, s), c, p)[c]
      = MarkDeletedTable(TrackPhysicalUnitTable(table, c, p), c, s)[c]

\* TrackPhysicalUnit has run on an entry that MarkDeleted created, and the
\* entry is the one the opposite order gives
C12_Witness ==
  /\ Called("TrackPhysicalUnit")
  /\ PreHas(last.cuid)
  /\ pre[last.cuid].is_deleted
  /\ pre[last.cuid].tracked_phys_ids = {}
  /\ table[last.cuid] =
       MarkDeletedTable(TrackPhysicalUnitTable(Erase(pre, last.cuid), last.cuid,
                                               last.phys_id),
                        last.cuid, pre[last.cuid].deleted_seq)[last.cuid]

\* C15: MarkDeleted(cuid, seq) leaves phys_ids unchanged and erases no entry:
\* GetRefCount(cuid) is as before, IsTracked(cuid) is true afterwards, and the
\* call returns true.
C15_MarkDeletedFrame ==
  Called("MarkDeleted") =>
    /\ PhysIdsOf(table, last.cuid) = PhysIdsOf(pre, last.cuid)
    /\ GetRefCount(table, last.cuid) = GetRefCount(pre, last.cuid)
    /\ IsTracked(table, last.cuid)
    /\ DOMAIN pre \subseteq DOMAIN table
    /\ last.ret = TRUE

\* a delete of a CUID that has a file
C15_Witness ==
  /\ Called("MarkDeleted")
  /\ GetRefCount(pre, last.cuid) > 0
  /\ GetRefCount(table, last.cuid) = GetRefCount(pre, last.cuid)

\* C19: GetDeleteSequence(cuid) returns deleted_seq when the entry exists with
\* is_deleted set, and the sentinel otherwise (no entry, an entry that only
\* file registration created, an entry erased by GC).
C19_GetDeleteSequence ==
  Called("GetDeleteSequence") =>
    /\ (PreHas(last.cuid) /\ pre[last.cuid].is_deleted)
         => last.ret = pre[last.cuid].deleted_seq
    /\ ~(PreHas(last.cuid) /\ pre[last.cuid].is_deleted)
         => last.ret = kMaxSequenceNumber
    /\ maxDel[last.cuid] >= 0 => last.ret = maxDel[last.cuid]
    /\ maxDel[last.cuid] < 0 => last.ret = kMaxSequenceNumber

\* a query on a CUID that has no entry
C19_Witness ==
  /\ Called("GetDeleteSequence")
  /\ ~PreHas(last.cuid)
  /\ last.ret = kMaxSequenceNumber

\* the output PhysIds of the last AtomicCompactionUpdate whose CUID set holds c
OutputsWith(c) == {o \in DOMAIN last.outputs : c \in last.outputs[o]}

\* C17: in AtomicCompactionUpdate an involved CUID that has no entry and is in
\* no output set is ignored (no entry is created); a CUID that has no entry and
\* is in an output set gets a fresh entry (is_deleted false, deleted_seq the
\* sentinel) holding that output PhysId.
C17_UnknownCuids ==
  Called("AtomicCompactionUpdate") =>
    \A c \in CUIDs :
      ~PreHas(c) =>
        IF OutputsWith(c) = {}
        THEN ~IsTracked(table, c)
        ELSE /\ IsTracked(table, c)
             /\ ~table[c].is_deleted
             /\ table[c].deleted_seq = kMaxSequenceNumber
             /\ OutputsWith(c) \subseteq table[c].tracked_phys_ids

\* C16: after AtomicCompactionUpdate the phys_ids of a CUID C are
\* (old \cup {out_id : C \in outputs[out_id]}) \ inputs when C is involved and
\* old \cup {out_id : C \in outputs[out_id]} when it is not; so when all of C's
\* previous files are inputs, GetRefCount(C) is the number of output files
\* whose CUID set contains C (a CUID with a file among the inputs is one of
\* the involved CUIDs).
C16_FileSplit ==
  Called("AtomicCompactionUpdate") =>
    \A c \in CUIDs :
      /\ PhysIdsOf(table, c) =
           IF c \in last.involved
           THEN (PhysIdsOf(pre, c) \cup OutputsWith(c)) \ last.ids
           ELSE PhysIdsOf(pre, c) \cup OutputsWith(c)
      /\ (/\ PhysIdsOf(pre, c) \subseteq last.ids
          /\ PhysIdsOf(pre, c) # {} => c \in last.involved)
           => GetRefCount(table, c) = Cardinality(OutputsWith(c))

\* C13: CUID 0 is never tracked, whatever InterceptDelete, RegisterFileRefs and
\* ApplyCompactionResult calls are made (CUID sets holding 0 included):
\* IsTracked(0) is false.
C13_ZeroNeverTracked == ~IsTracked(table, 0)

WriterPost ==
  AtomicCompactionUpdateTable(writer.start, writer.involved, writer.ids,
                              writer.outputs)

\* C18: AtomicCompactionUpdate holds the exclusive lock for the whole call; no
\* concurrent GetRefCount, IsTracked, IsDeleted or GetDeleteSequence is inside
\* its lock while the update is in progress, and every result a reader has
\* computed is the result on the table before the update or on the table after
\* it. The steps of the update end in the table the call is specified to leave.
C18_CompactionUpdateAtomic ==
  /\ writer.pc # "idle" => mutex.exclusive /\ mutex.shared = {}
  /\ (writer.pc = "debit" /\ writer.todo = {}) => table = WriterPost
  /\ \A r \in Readers :
       /\ readers[r].pc # "idle" => r \in mutex.shared /\ writer.pc = "idle"
       /\ readers[r].pc = "read" =>
            readers[r].seen \in
              IF writer.pc = "idle"
              THEN {Query(table, readers[r])}
              ELSE {Query(writer.start, readers[r]), Query(WriterPost, readers[r])}

\* an update is between its steps, and a reference count differs from the one
\* before the call and from the one after it
C18_Witness ==
  /\ writer.pc \in {"debit", "gc"}
  /\ ~crashed
  /\ \E c \in CUIDs :
       /\ GetRefCount(table, c) # GetRefCount(writer.start, c)
       /\ GetRefCount(table, c) # GetRefCount(WriterPost, c)

\* ------------------------------------------------------------- scenario (SpecChaos)
\* the CUID of the scenario's key
ChaosCuid == 1

\* a Get that finds nothing (values are named by the sequence that wrote them)
NotFound == 0

\* point-get of the key of cuid under a snapshot when data is what physically
\* exists: the latest version at or before the snapshot, unless IsCuidDeleted
\* says it is deleted
PointGetIn(data, cuid, snapshot_seq) ==
  LET versions == {d \in data : d[1] = cuid /\ d[2] <= snapshot_seq}
  IN  IF versions = {} THEN NotFound
      ELSE LET found == CHOOSE d \in versions : \A e \in versions : e[2] <= d[2]
           IN  IF IsCuidDeleted(table, cuid, snapshot_seq, found[2])
               THEN NotFound
               ELSE found[2]

PointGet(cuid, snapshot_seq) == PointGetIn(Present, cuid, snapshot_seq)

ChaosStep ==
  /\ ~crashed
  /\ UNCHANGED <<crashed, pre, last, lazyDel, maxDel, lastDel, mutex, writer, readers,
                 race>>

\* Put of V1, V2, V4
ScriptPut ==
  /\ script.pc \in {0, 2, 6}
  /\ seq' = seq + 1
  /\ memtable' = memtable \cup {<<ChaosCuid, seq + 1>>}
  /\ script' = [script EXCEPT !.pc = @ + 1, !.vals = Append(@, seq + 1)]
  /\ ChaosStep
  /\ UNCHANGED <<table, files, nextFile, snapshots>>

\* GetSnapshot after each write
ScriptSnapshot ==
  /\ script.pc \in {1, 3, 5, 7}
  /\ snapshots' = snapshots \cup {seq}
  /\ script' = [script EXCEPT !.pc = @ + 1, !.snaps = Append(@, seq)]
  /\ ChaosStep
  /\ UNCHANGED <<table, seq, memtable, files, nextFile>>

\* Delete of the key, a write of its own: it is intercepted with the sequence
\* of its tombstone, and that sequence is used up
ScriptDelete ==
  /\ script.pc = 4
  /\ table' = InterceptDeleteTable(table, ChaosCuid, seq + 1)
  /\ seq' = seq + 1
  /\ script' = [script EXCEPT !.pc = @ + 1]
  /\ ChaosStep
  /\ UNCHANGED <<memtable, files, nextFile, snapshots>>

\* a Put or a Delete of a key of another CUID, any time before the flush
OtherWrite ==
  /\ script.pc < 8
  /\ script.others < MaxOthers
  /\ \E cuid \in CUIDs \ {ChaosCuid} :
       \/ /\ memtable' = memtable \cup {<<cuid, seq + 1>>}
          /\ UNCHANGED table
       \/ /\ table' = InterceptDeleteTable(table, cuid, seq + 1)
          /\ UNCHANGED memtable
  /\ seq' = seq + 1
  /\ script' = [script EXCEPT !.others = @ + 1]
  /\ ChaosStep
  /\ UNCHANGED <<files, nextFile, snapshots>>

\* the memtable becomes file nextFile, registered for its CUIDs
FlushMemtable ==
  /\ files' = [f \in DOMAIN files \cup {nextFile} |->
                 IF f = nextFile THEN memtable ELSE files[f]]
  /\ table' = RegisterFileRefs(table, nextFile, CuidsOf(memtable))
  /\ memtable' = {}
  /\ nextFile' = nextFile + 1

\* a flush of a full memtable before the scenario asks for one
EarlyFlush ==
  /\ script.pc < 8
  /\ memtable # {}
  /\ nextFile <= MaxEarlyFile
  /\ FlushMemtable
  /\ ChaosStep
  /\ UNCHANGED <<seq, snapshots, script>>

\* db->Flush
ScriptFlush ==
  /\ script.pc = 8
  /\ IF memtable = {}
     THEN UNCHANGED <<table, memtable, files, nextFile>>
     ELSE FlushMemtable
  /\ script' = [script EXCEPT !.pc = @ + 1]
  /\ ChaosStep
  /\ UNCHANGED <<seq, snapshots>>

\* db->CompactRange with kForce: every live file is rewritten
ScriptCompact ==
  /\ script.pc = 9
  /\ LET inputs == DOMAIN files
         data == UNION {files[f] : f \in inputs}
         survivors == {d \in data : ~ShouldDrop(d)}
     IN  \E outs \in CompactionOutputs(survivors) :
           /\ files' = outs
           /\ nextFile' = nextFile + Cardinality(DOMAIN outs)
           /\ table' = ApplyCompactionResult(table, CuidsOf(data), inputs,
                          [f \in DOMAIN outs |-> CuidsOf(outs[f])])
  /\ script' = [script EXCEPT !.pc = @ + 1]
  /\ ChaosStep
  /\ UNCHANGED <<seq, memtable, snapshots>>

NextChaos ==
  \/ ScriptPut
  \/ ScriptSnapshot
  \/ ScriptDelete
  \/ OtherWrite
  \/ EarlyFlush
  \/ ScriptFlush
  \/ ScriptCompact

SpecChaos == Init /\ [][NextChaos]_vars

Returned == last.op # "none" /\ ~crashed

\* UntrackPhysicalUnit(cuid, id) called once for each listed id
RECURSIVE UntrackEach(_, _, _)
UntrackEach(t, cuid, ids) ==
  IF ids = {}
  THEN t
  ELSE LET id == CHOOSE i \in ids : TRUE
       IN  UntrackEach(UntrackPhysicalUnitTable(t, cuid, id), cuid, ids \ {id})

\* C23: UntrackFiles(cuid, ids) removes every listed id from phys_ids and then
\* erases the entry iff phys_ids is empty and is_deleted is set; it reaches the
\* table that UntrackPhysicalUnit(cuid, id) called once per listed id reaches;
\* on a CUID with no entry it changes nothing.
C23_UntrackFilesBatched ==
  Called("UntrackFiles") =>
    /\ ~PreHas(last.cuid) => table = pre
    /\ PreHas(last.cuid) =>
         /\ PhysIdsOf(table, last.cuid) = pre[last.cuid].tracked_phys_ids \ last.ids
         /\ ~IsTracked(table, last.cuid) <=>
              (pre[last.cuid].tracked_phys_ids \ last.ids = {}
                 /\ pre[last.cuid].is_deleted)
    /\ table = UntrackEach(pre, last.cuid, last.ids)

\* C24: an entry leaves the table only in a step that leaves its phys_ids empty
\* while its is_deleted flag is set; an entry that was never marked deleted is
\* never erased, even with empty phys_ids.
C24_DestructionCondition ==
  Returned =>
    /\ \A c \in DOMAIN pre \ DOMAIN table :
         /\ pre[c].is_deleted
         /\ \/ /\ last.op = "UntrackFiles"
               /\ last.cuid = c
               /\ pre[c].tracked_phys_ids \ last.ids = {}
            \/ /\ last.op = "AtomicCompactionUpdate"
               /\ c \in last.involved
               /\ (pre[c].tracked_phys_ids \cup OutputsWith(c)) \ last.ids = {}
    /\ \A c \in DOMAIN pre : ~pre[c].is_deleted => IsTracked(table, c)

\* UntrackFiles has removed the last files of a deleted CUID and its entry
C24_Witness ==
  /\ Called("UntrackFiles")
  /\ PreHas(last.cuid)
  /\ pre[last.cuid].is_deleted
  /\ pre[last.cuid].tracked_phys_ids # {}
  /\ ~IsTracked(table, last.cuid)

\* C27: once IsDeleted(cuid, visible_seq, found_seq) is true it stays true
\* after any further MarkDeleted on that CUID.
C27_VerdictStable ==
  Called("MarkDeleted") =>
    \A visible_seq \in VisSeqs : \A found_seq \in Seqs :
      IsDeleted(pre, last.cuid, visible_seq, found_seq)
        => IsDeleted(table, last.cuid, visible_seq, found_seq)

\* the CUIDs an AtomicCompactionUpdate names
Named == last.involved \cup UNION {last.outputs[o] : o \in DOMAIN last.outputs}

\* the entry of c is the same in t and u (existence and every field)
SameEntry(t, u, c) ==
  /\ c \in DOMAIN t <=> c \in DOMAIN u
  /\ c \in DOMAIN t => t[c] = u[c]

\* C28: TrackPhysicalUnit, UntrackPhysicalUnit, UntrackFiles and MarkDeleted on
\* CUID c leave the entry of every other CUID as it was; AtomicCompactionUpdate
\* changes only entries of CUIDs in involved_cuids or in an output set; a
\* delete of one CUID leaves every visibility verdict of another CUID as it was.
C28_PerCuidIsolation ==
  /\ (Returned /\ last.op \in {"TrackPhysicalUnit", "UntrackPhysicalUnit",
                               "UntrackFiles", "MarkDeleted"}) =>
       \A c \in CUIDs \ {last.cuid} : SameEntry(pre, table, c)
  /\ Called("AtomicCompactionUpdate") =>
       \A c \in CUIDs \ Named : SameEntry(pre, table, c)
  /\ Called("MarkDeleted") =>
       \A c \in CUIDs \ {last.cuid} : \A v \in VisSeqs : \A f \in Seqs :
         IsDeleted(table, c, v, f) <=> IsDeleted(pre, c, v, f)

\* an AtomicCompactionUpdate whose input files are also files of a CUID it
\* does not name
C28_Witness ==
  /\ Called("AtomicCompactionUpdate")
  /\ table # pre
  /\ \E c \in CUIDs \ Named :
       /\ PreHas(c)
       /\ pre[c].tracked_phys_ids \cap last.ids # {}
       /\ table[c] = pre[c]

\* C29: no operation resets is_deleted to false or deleted_seq to the sentinel
\* on an existing entry; a CUID stops being reported deleted only when its
\* entry is erased, and a TrackPhysicalUnit for a CUID without entry creates
\* an entry with is_deleted false and GetDeleteSequence equal to the sentinel.
C29_DeleteFlagSticky ==
  /\ Returned =>
       \A c \in DOMAIN pre :
         pre[c].is_deleted =>
           \/ ~IsTracked(table, c)
           \/ /\ table[c].is_deleted
              /\ table[c].deleted_seq # kMaxSequenceNumber
              /\ GetDeleteSequence(table, c) # kMaxSequenceNumber
  /\ \A c \in CUIDs \ DOMAIN table : \A p \in PhysIds :
       LET t2 == TrackPhysicalUnitTable(table, c, p)
       IN  ~t2[c].is_deleted /\ GetDeleteSequence(t2, c) = kMaxSequenceNumber

\* a file was registered for a deleted CUID and the delete is still recorded
C29_Witness ==
  /\ Called("TrackPhysicalUnit")
  /\ PreHas(last.cuid)
  /\ pre[last.cuid].is_deleted
  /\ last.ret
  /\ GetDeleteSequence(table, last.cuid) = pre[last.cuid].deleted_seq

\* C30: AtomicCompactionUpdate is well defined for every input, an output with
\* an empty CUID set included: it credits no CUID for that output, makes no
\* invalid access, and completes with debits and GC applied.
C30_WellDefined ==
  last.op = "AtomicCompactionUpdate" =>
    /\ ~crashed
    /\ table = AtomicCompactionUpdateTable(pre, last.involved, last.ids, last.outputs)

\* C25: RegisterFileRefs(phys_id, cuids) applies TrackPhysicalUnit(c, phys_id)
\* for every listed c: afterwards phys_id is in phys_ids of every listed CUID
\* (entries created when missing), GetRefCount of a listed CUID has grown by
\* one if phys_id was new for it and by zero otherwise, and is_deleted and
\* deleted_seq of existing entries are as before.
C25_RegisterFileRefs ==
  Called("RegisterFileRefs") =>
    /\ \A c \in last.involved :
         /\ IsTracked(table, c)
         /\ last.phys_id \in table[c].tracked_phys_ids
         /\ GetRefCount(table, c) =
              GetRefCount(pre, c)
                + (IF last.phys_id \in PhysIdsOf(pre, c) THEN 0 ELSE 1)
         /\ PreHas(c) =>
              /\ table[c].is_deleted = pre[c].is_deleted
              /\ table[c].deleted_seq = pre[c].deleted_seq
         /\ ~PreHas(c) => table[c].tracked_phys_ids = {last.phys_id}
    /\ \A c \in MgrCuids \ last.involved : SameEntry(pre, table, c)

\* a file registered for a deleted CUID that did not have it and for a CUID
\* that had no entry
C25_Witness ==
  /\ Called("RegisterFileRefs")
  /\ \E c \in last.involved :
       /\ PreHas(c)
       /\ pre[c].is_deleted
       /\ last.phys_id \notin pre[c].tracked_phys_ids
       /\ pre[c].tracked_phys_ids # {}
  /\ \E c \in last.involved : ~PreHas(c)

\* C26: ExtractCUID(key) is 0 for every key shorter than 24 bytes, and
\* otherwise the big-endian value of key bytes 16..23 whatever bytes follow;
\* a CUID written big-endian into bytes 16..23, as the tests' Key helper does,
\* is extracted again.
C26_ExtractCUID ==
  Called("ExtractCUID") =>
    /\ Len(last.key) < 24 => last.cuid = 0
    /\ Len(last.key) >= 24 =>
         /\ (\A i \in 17..20 : last.key[i] = 0) =>
              last.cuid = last.key[21] * 16777216 + last.key[22] * 65536
                            + last.key[23] * 256 + last.key[24]
         /\ last.cuid = ExtractCUID(SubSeq(last.key, 1, 24))
         /\ BigEndian(last.cuid) = SubSeq(last.key, 17, 24)
    /\ \A c \in KeyCuids : \A x \in 0..MaxSuffix :
         last.key = Key(c, x) => last.cuid = c

\* a key of exactly 24 bytes whose CUID uses four bytes
C26_Witness ==
  /\ Called("ExtractCUID")
  /\ Len(last.key) = 24
  /\ last.key[21] # 0
  /\ last.cuid = 2147483647

\* the sequences reads are made at: every live snapshot, and no snapshot
ReadSeqs == snapshots \cup {kMaxSequenceNumber}

\* the data a compaction of the files in inputs drops
Dropped(inputs) == {d \in UNION {files[f] : f \in inputs} : ShouldDrop(d)}

GcCuid == 1

\* the live files holding data of GcCuid
GcFiles == {f \in DOMAIN files : GcCuid \in CuidsOf(files[f])}

\* a snapshot older than the delete of GcCuid is live
OldSnapshotLive == \E S \in snapshots : S < lastDel[GcCuid]

\* a write; GcCuid is not written once its delete was issued
ReclaimPut ==
  /\ seq < LastSeq
  /\ \E cuid \in CUIDs :
       /\ cuid = GcCuid => lastDel[GcCuid] = 0
       /\ seq' = seq + 1
       /\ memtable' = memtable \cup {<<cuid, seq + 1>>}
  /\ EngineStep
  /\ UNCHANGED <<table, files, nextFile, snapshots, lastDel>>

\* a delete; GcCuid is deleted once, when it has a live file and nothing
\* unflushed (no file is registered for it afterwards)
ReclaimDelete ==
  /\ seq < LastSeq
  /\ \E cuid \in CUIDs, consumes \in BOOLEAN :
       /\ cuid = GcCuid =>
            /\ lastDel[GcCuid] = 0
            /\ GcFiles # {}
            /\ GcCuid \notin CuidsOf(memtable)
       /\ table' = InterceptDeleteTable(table, cuid, seq + 1)
       /\ lastDel' = [lastDel EXCEPT ![cuid] = seq + 1]
       /\ seq' = IF consumes THEN seq + 1 ELSE seq
  /\ EngineStep
  /\ UNCHANGED <<memtable, files, nextFile, snapshots>>

\* a snapshot; none older than the delete of GcCuid is taken after it
ReclaimGetSnapshot ==
  /\ lastDel[GcCuid] = 0 \/ seq >= lastDel[GcCuid]
  /\ GetSnapshot

\* file numbers that name no live file and that no entry refers to
FreeFiles ==
  (1..(MaxFile + 2))
    \ (DOMAIN files \cup UNION {table[c].tracked_phys_ids : c \in DOMAIN table})

\* the number of a new file: the next file number; once the numbers the model
\* hands out are used up, a free one (the table only compares file numbers, so
\* a number that occurs nowhere stands for a fresh one)
NewFile ==
  IF nextFile <= MaxFile THEN nextFile
  ELSE CHOOSE f \in FreeFiles : \A g \in FreeFiles : f <= g

\* a merging compaction that consumes every live file holding GcCuid and
\* writes what it keeps to one new file
ReclaimCompact ==
  /\ lastDel[GcCuid] > 0
  /\ GcFiles # {}
  /\ FreeFiles # {}
  /\ LET inputs == GcFiles
         data == UNION {files[f] : f \in inputs}
         survivors == {d \in data : ~ShouldDrop(d)}
         outs == IF survivors = {} THEN EmptyTable
                 ELSE [f \in {NewFile} |-> survivors]
     IN  /\ files' = [f \in (DOMAIN files \ inputs) \cup DOMAIN outs |->
                        IF f \in DOMAIN outs THEN outs[f] ELSE files[f]]
         /\ nextFile' = IF nextFile <= MaxFile
                        THEN nextFile + Cardinality(DOMAIN outs)
                        ELSE nextFile
         /\ table' = ApplyCompactionResult(table, CuidsOf(data), inputs,
                        [f \in DOMAIN outs |-> CuidsOf(outs[f])])
  /\ EngineStep
  /\ UNCHANGED <<seq, memtable, snapshots, lastDel>>

NextReclaim ==
  \/ ReclaimPut
  \/ ReclaimDelete
  \/ ReclaimGetSnapshot
  \/ ReleaseSnapshot
  \/ Flush
  \/ Compact
  \/ ReclaimCompact
  \/ TrivialMove

\* no snapshot stays live forever, and the live files holding GcCuid are
\* consumed by a compaction again and again
SpecReclaim ==
  /\ Init
  /\ [][NextReclaim]_vars
  /\ WF_vars(ReleaseSnapshot)
  /\ WF_vars(ReclaimCompact)

\* C22: if CUID C is marked deleted, no file is registered for C afterwards,
\* no snapshot older than the delete stays live forever and every live file
\* holding C is eventually consumed by a compaction, then eventually C's
\* phys_ids is empty and C's entry is erased: IsTracked(C) becomes false and
\* stays false.
C22_EventualReclamation ==
  [](lastDel[GcCuid] > 0 => <>[](~IsTracked(table, GcCuid)))

\* ------------------------------------------------------------- claims C31..C32
Queries == {"IsDeleted", "GetRefCount", "GetDeleteSequence", "IsTracked"}

\* C31: IsDeleted, GetRefCount, GetDeleteSequence and IsTracked leave the table
\* unchanged for every argument; for a CUID without an entry no entry is
\* created, GetRefCount returns 0 and IsTracked returns false and stays false.
C31_QueriesReadOnly ==
  (Returned /\ last.op \in Queries) =>
    /\ table = pre
    /\ last.cuid \notin DOMAIN pre =>
         /\ last.cuid \notin DOMAIN table
         /\ ~IsTracked(table, last.cuid)
         /\ GetRefCount(table, last.cuid) = 0
         /\ last.op = "GetRefCount" => last.ret = 0
         /\ last.op = "IsTracked" => last.ret = FALSE

C31_Witness ==
  /\ Returned
  /\ last.op = "GetRefCount"
  /\ last.cuid \notin DOMAIN pre
  /\ pre # EmptyTable

\* ------------------------------------------------------------- racing threads (SpecRace)
Threads == 1..MaxThreads

\* the calls a thread can be running: RegisterFileRefs(file_number, cuids),
\* with todo the CUIDs its loop has not reached yet, or MarkDeleted(cuid, seq),
\* with todo = {cuid} until it has run
RaceCalls ==
  {[op |-> "RegisterFileRefs", phys_id |-> f, cuids |-> cs, seq |-> 0, todo |-> cs] :
     f \in PhysIds, cs \in SUBSET CUIDs}
    \cup {[op |-> "MarkDeleted", phys_id |-> 0, cuids |-> {c}, seq |-> s, todo |-> {c}] :
             c \in CUIDs, s \in Seqs}

RaceStep ==
  /\ ~crashed
  /\ UNCHANGED <<crashed, pre, last, lazyDel, maxDel, engVars, mutex, writer, readers,
                 script>>

\* the threads enter their calls
RaceStart ==
  /\ ~race.on
  /\ \E calls \in [Threads -> RaceCalls] :
       race' = [on |-> TRUE, start |-> table, calls |-> calls, log |-> <<>>]
  /\ RaceStep
  /\ UNCHANGED table

\* one iteration of the loop of RegisterFileRefs: TrackPhysicalUnit(cuid,
\* file_number) takes mutex_, runs and releases it. The loop visits the
\* unordered_set in an unspecified order.
RaceRegisterStep ==
  /\ race.on
  /\ \E th \in Threads :
       /\ race.calls[th].op = "RegisterFileRefs"
       /\ \E cuid \in race.calls[th].todo :
            /\ table' = TrackPhysicalUnitTable(table, cuid, race.calls[th].phys_id)
            /\ race' = [race EXCEPT !.calls[th].todo = @ \ {cuid},
                                    !.log = Append(@, th)]
  /\ RaceStep

\* MarkDeleted(cuid, seq): one step under mutex_
RaceMarkDeleted ==
  /\ race.on
  /\ \E th \in Threads :
       /\ race.calls[th].op = "MarkDeleted"
       /\ \E cuid \in race.calls[th].todo :
            /\ table' = MarkDeletedTable(table, cuid, race.calls[th].seq)
            /\ race' = [race EXCEPT !.calls[th].todo = {}, !.log = Append(@, th)]
  /\ RaceStep

\* every thread has returned
RaceOver == race.on /\ \A th \in Threads : race.calls[th].todo = {}

\* the threads leave; others may race on the table they left
RaceEnd ==
  /\ RaceOver
  /\ race' = NoRace
  /\ RaceStep
  /\ UNCHANGED table

NextRace ==
  \/ RaceStart
  \/ RaceRegisterStep
  \/ RaceMarkDeleted
  \/ RaceEnd

SpecRace == Init /\ [][NextRace]_vars

\* the table after one whole call
RunCall(t, call) ==
  IF call.op = "RegisterFileRefs"
  THEN RegisterFileRefs(t, call.phys_id, call.cuids)
  ELSE MarkDeletedTable(t, CHOOSE c \in call.cuids : TRUE, call.seq)

\* the orders in which the threads' calls can run one after another
Orders == {o \in [Threads -> Threads] : \A i, j \in Threads : o[i] = o[j] => i = j}

\* the table after the calls have run one after another in order o
RECURSIVE RunInOrder(_, _, _, _)
RunInOrder(t, calls, o, i) ==
  IF i > MaxThreads THEN t
  ELSE RunInOrder(RunCall(t, calls[o[i]]), calls, o, i + 1)

\* C32: when several threads run RegisterFileRefs (one lock per CUID) and
\* MarkDeleted at the same time, with no untrack or compaction update in
\* flight, every interleaving of their per-CUID steps ends in the table that
\* running the calls one after another gives, in any order.
C32_OrderInsensitive ==
  RaceOver => \A o \in Orders : table = RunInOrder(race.start, race.calls, o, 1)

\* a MarkDeleted ran between two iterations of a RegisterFileRefs that names
\* the same CUID, which had no entry before
C32_Witness ==
  /\ RaceOver
  /\ race.log = <<1, 2, 1>>
  /\ race.calls[2].op = "MarkDeleted"
  /\ race.calls[2].cuids \subseteq race.calls[1].cuids
  /\ race.calls[2].cuids \cap DOMAIN race.start = {}
  /\ race.start # EmptyTable

====
